---- MODULE Spec2Model ----
(***************************************************************************)
(* Config::load of helix-term/src/config.rs: the resolution of the global  *)
(* and the workspace-local configuration file into one Config.             *)
(*                                                                         *)
(* A configuration text is a set of `dotted.key = value` lines.  Rust's    *)
(* Option is a sequence of length <= 1, Result and the enums are records   *)
(* whose single field names the variant.                                   *)
(***************************************************************************)
EXTENDS Integers, Sequences, FiniteSets, TLC

VARIABLES global, local, result

vars == <<global, local, result>>

\* ---------------------------------------------------------------- Option, Result

None == <<>>

Some(v) == <<v>>

\* Option::or
OrOption(a, b) == IF a # None THEN a ELSE b

Ok(v) == [ok |-> v]

Err(e) == [err |-> e]

IsOk(r) == "ok" \in DOMAIN r

IsErr(r) == "err" \in DOMAIN r

\* enum ConfigLoadError { BadConfig(TomlError), Error(IOError) }
BadConfig(e) == [BadConfig |-> e]

Error(e) == [Error |-> e]

IsBadConfig(r) == IsErr(r) /\ "BadConfig" \in DOMAIN r.err

IsIoError(r) == IsErr(r) /\ "Error" \in DOMAIN r.err

\* ---------------------------------------------------------------- toml::Value

\* enum toml::Value: the variants the configuration uses
String(s) == [String |-> s]

Integer(n) == [Integer |-> n]

Boolean(b) == [Boolean |-> b]

Table(f) == [Table |-> f]

IsTable(v) == "Table" \in DOMAIN v

IsString(v) == "String" \in DOMAIN v

Line(p, v) == [path |-> p, value |-> v]

\* ---------------------------------------------------------------- bounds and inputs

\* The two files hold at most MaxLines lines between them.
MaxLines == 3

\* The I/O failures a read can end with are the first NumIoErrors of IoErrorKinds.
NumIoErrors == 2

IoErrorKinds == <<"NotFound", "PermissionDenied", "InvalidData", "Interrupted">>

IoErrors == {IoErrorKinds[i] : i \in 1..NumIoErrors}

ThemeLines == {Line(<<"theme">>, String(t)) : t \in {"a", "b"}}

IconsLines == {Line(<<"icons">>, String(t)) : t \in {"x", "y"}}

\* a key of the schema set to a value of another type
MistypedLines == {Line(<<"theme">>, Integer(1))}

KeysLines ==
    { Line(<<"keys", "supertab">>, String("move_line_down")),
      Line(<<"keys", "supertab">>, String("delete_selection")),
      Line(<<"keys", "normal", "a">>, String("cmd1")),
      Line(<<"keys", "normal", "a">>, String("cmd2")),
      Line(<<"keys", "normal", "b">>, String("cmd2")),
      Line(<<"keys", "normal", "g", "a">>, String("cmd1")),
      Line(<<"keys", "normal", "g">>, String("cmd2")),
      Line(<<"keys", "insert", "y">>, String("move_line_down")) }

EditorLines ==
    { Line(<<"editor", "scrolloff">>, Integer(3)),
      Line(<<"editor", "scrolloff">>, String("bad")),
      Line(<<"editor", "mouse">>, Boolean(FALSE)),
      Line(<<"editor", "whitespace", "render", "space">>, String("all")),
      Line(<<"editor", "whitespace", "render", "tab">>, String("all")) }

\* a top-level key outside the schema
UnknownLines == {Line(<<"foo">>, Integer(1))}

\* a line that is no `key = value`
GarbageLines == {Line(<<>>, String("="))}

Lines ==
    ThemeLines \cup IconsLines \cup KeysLines \cup EditorLines
        \cup MistypedLines \cup UnknownLines \cup GarbageLines

RECURSIVE Texts(_)
\* the texts of at most n lines
Texts(n) ==
    IF n = 0 THEN {{}}
    ELSE LET shorter == Texts(n - 1)
         IN  shorter \cup {t \cup {l} : t \in shorter, l \in Lines}

\* What reading one file gives: fs::read_to_string(..).map_err(ConfigLoadError::Error),
\* the text of at most n lines
Sources(n) == {Ok(t) : t \in Texts(n)} \cup {Err(Error(e)) : e \in IoErrors}

SourceLines(s) == IF IsOk(s) THEN Cardinality(s.ok) ELSE 0

\* ---------------------------------------------------------------- toml::from_str

IsPrefix(p, q) == Len(p) <= Len(q) /\ SubSeq(q, 1, Len(p)) = p

\* the lines whose key is defined again: twice, or as a value and as a table
Redefined(text) ==
    {l \in text : \E m \in text : m # l /\ IsPrefix(l.path, m.path)}

RECURSIVE TableAt(_, _)
\* the table the lines under `prefix` spell
TableAt(text, prefix) ==
    LET n == Len(prefix)
        under == {l \in text : Len(l.path) > n /\ SubSeq(l.path, 1, n) = prefix}
        names == {l.path[n + 1] : l \in under}
    IN  Table([k \in names |->
            LET p == Append(prefix, k)
            IN  IF \E l \in under : l.path = p
                THEN (CHOOSE l \in under : l.path = p).value
                ELSE TableAt(text, p)])

TomlError(msg, at) == [msg |-> msg, at |-> at]

\* the syntax pass of the parser: Ok(document) or Err(TomlError)
ParseDocument(text) ==
    IF \E l \in text : l.path = <<>>
    THEN Err(TomlError("expected a key", {<<>>}))
    ELSE IF Redefined(text) # {}
    THEN Err(TomlError("duplicate key", {l.path : l \in Redefined(text)}))
    ELSE Ok(TableAt(text, <<>>))

\* ---------------------------------------------------------------- keymap

\* helix_view::document::Mode
Modes == {"normal", "select", "insert"}

\* enum KeyTrie: a command, or a node mapping key chords to KeyTries
Leaf(c) == [Leaf |-> c]

Node(m) == [Node |-> m]

IsNode(t) == "Node" \in DOMAIN t

\* keymap::default(): the built-in key bindings, one trie per mode
keymap_default ==
    [ normal |-> Node([ h |-> Leaf("move_char_left"),
                        g |-> Node([ g |-> Leaf("goto_file_start"),
                                     e |-> Leaf("goto_last_line") ]) ]),
      select |-> Node([ h |-> Leaf("extend_char_left") ]),
      insert |-> Node([ esc |-> Leaf("normal_mode") ]) ]

RECURSIVE merge_nodes(_, _)
\* KeyTrie::merge_nodes: `other` layered on `node`, key by key, nodes recursively
merge_nodes(node, other) ==
    IF IsNode(node) /\ IsNode(other)
    THEN Node([k \in DOMAIN node.Node \cup DOMAIN other.Node |->
            IF k \notin DOMAIN other.Node THEN node.Node[k]
            ELSE IF k \notin DOMAIN node.Node THEN other.Node[k]
            ELSE merge_nodes(node.Node[k], other.Node[k])])
    ELSE other

\* keymap::merge_keys(dst, delta): every mode of dst merged with delta's trie for it
merge_keys(dst, delta) ==
    [mode \in DOMAIN dst |->
        IF mode \in DOMAIN delta THEN merge_nodes(dst[mode], delta[mode]) ELSE dst[mode]]

\* the derived #[derive(Default)] a HashMap field gets: no mode at all
KeymapConfig_default_Derived == [supertab |-> None, bindings |-> <<>>]

\* impl Default for KeymapConfig
KeymapConfig_default == [supertab |-> None, bindings |-> keymap_default]

RECURSIVE IsKeyTrie(_)
IsKeyTrie(v) ==
    IsString(v) \/ (IsTable(v) /\ \A k \in DOMAIN v.Table : IsKeyTrie(v.Table[k]))

RECURSIVE KeyTrieOf(_)
KeyTrieOf(v) ==
    IF IsString(v) THEN Leaf(v.String)
    ELSE Node([k \in DOMAIN v.Table |-> KeyTrieOf(v.Table[k])])

\* #[derive(Deserialize)] struct KeymapConfig: supertab, and the modes flattened
IsKeymapConfig(v) ==
    /\ IsTable(v)
    /\ \A k \in DOMAIN v.Table :
            IF k = "supertab" THEN IsString(v.Table[k])
            ELSE k \in Modes /\ IsKeyTrie(v.Table[k])

KeymapConfigOf(v) ==
    [ supertab |-> IF "supertab" \in DOMAIN v.Table
                   THEN Some(v.Table["supertab"].String) ELSE None,
      bindings |-> [m \in DOMAIN v.Table \ {"supertab"} |-> KeyTrieOf(v.Table[m])] ]

\* ---------------------------------------------------------------- ConfigRaw

\* the fields of struct ConfigRaw; #[serde(deny_unknown_fields)] rejects any other
ConfigRawFields == {"theme", "icons", "keys", "editor"}

\* the fields of `t` deserialized, each into its type
ConfigRawFrom(t) ==
    LET mistyped == {k \in DOMAIN t \cap {"theme", "icons"} : ~IsString(t[k])}
                        \cup {k \in DOMAIN t \cap {"keys"} : ~IsKeymapConfig(t[k])}
    IN  IF mistyped # {}
        THEN Err(TomlError("invalid type", {<<k>> : k \in mistyped}))
        ELSE Ok([ theme |-> IF "theme" \in DOMAIN t THEN Some(t["theme"].String) ELSE None,
                  icons |-> IF "icons" \in DOMAIN t THEN Some(t["icons"].String) ELSE None,
                  keys |-> IF "keys" \in DOMAIN t THEN Some(KeymapConfigOf(t["keys"])) ELSE None,
                  editor |-> IF "editor" \in DOMAIN t THEN Some(t["editor"]) ELSE None ])

\* ConfigRawOf without deny_unknown_fields: keys outside the schema are skipped
ConfigRawOf_AllowUnknown(doc) == ConfigRawFrom(doc.Table)

\* the schema pass, #[derive(Deserialize)] #[serde(deny_unknown_fields)] struct ConfigRaw
ConfigRawOf(doc) ==
    LET unknown == DOMAIN doc.Table \ ConfigRawFields
    IN  IF unknown # {}
        THEN Err(TomlError("unknown field", {<<k>> : k \in unknown}))
        ELSE ConfigRawFrom(doc.Table)

\* toml::from_str::<ConfigRaw>(&file)
from_str(text) ==
    LET doc == ParseDocument(text)
    IN  IF IsErr(doc) THEN doc ELSE ConfigRawOf(doc.ok)

\* source.and_then(|file| toml::from_str(&file).map_err(ConfigLoadError::BadConfig))
ParseSource(source) ==
    IF IsErr(source) THEN source
    ELSE LET raw == from_str(source.ok)
         IN  IF IsErr(raw) THEN Err(BadConfig(raw.err)) ELSE raw

\* ---------------------------------------------------------------- editor settings

\* helix_view::editor::Config::default(), as the value tree of its fields
editor_Config_default ==
    Table([ scrolloff |-> Integer(5),
            mouse |-> Boolean(TRUE),
            whitespace |-> Table([ render |-> Table([ space |-> String("none"),
                                                      tab |-> String("none") ]) ]) ])

RECURSIVE Mistyped(_, _, _)
\* the paths of `v` whose value has not the type the schema `d` gives them
Mistyped(v, d, at) ==
    IF DOMAIN v # DOMAIN d THEN {at}
    ELSE IF IsTable(v)
    THEN UNION {Mistyped(v.Table[k], d.Table[k], Append(at, k)) :
                    k \in DOMAIN v.Table \cap DOMAIN d.Table}
    ELSE {}

RECURSIVE Filled(_, _)
\* the settings: the fields `v` sets, the schema's default for the others
Filled(v, d) ==
    IF IsTable(d)
    THEN Table([k \in DOMAIN d.Table |->
            IF k \in DOMAIN v.Table THEN Filled(v.Table[k], d.Table[k]) ELSE d.Table[k]])
    ELSE v

\* toml::Value::try_into::<helix_view::editor::Config>()
try_into(val) ==
    LET bad == Mistyped(val, editor_Config_default, <<"editor">>)
    IN  IF bad # {} THEN Err(TomlError("invalid type", bad))
        ELSE Ok(Filled(val, editor_Config_default))

RECURSIVE merge_toml_values(_, _, _)
\* helix_loader::merge_toml_values(left, right, merge_depth): tables merge key by
\* key while merge_depth lasts and `right` replaces `left` below it; between a table
\* and a value that is no table the one that is no table is kept; otherwise `right`
merge_toml_values(left, right, merge_depth) ==
    IF IsTable(left) /\ IsTable(right)
    THEN IF merge_depth > 0
         THEN Table([k \in DOMAIN left.Table \cup DOMAIN right.Table |->
                 IF k \notin DOMAIN right.Table THEN left.Table[k]
                 ELSE IF k \notin DOMAIN left.Table THEN right.Table[k]
                 ELSE merge_toml_values(left.Table[k], right.Table[k], merge_depth - 1)])
         ELSE right
    ELSE IF IsTable(right) THEN left
    ELSE right

\* ---------------------------------------------------------------- Config::load

\* the merge depth Config::load passes to merge_toml_values
MergeDepth == 3

\* the closure merge_keymap_configs, its captured accumulator as first argument
merge_keymap_configs(result_keymap_config, config) ==
    IF config.keys # None
    THEN LET keymap_config == config.keys[1]
         IN  [ supertab |-> IF keymap_config.supertab # None
                            THEN keymap_config.supertab
                            ELSE result_keymap_config.supertab,
               bindings |-> merge_keys(result_keymap_config.bindings,
                                       keymap_config.bindings) ]
    ELSE result_keymap_config

\* MergedKeys with the two calls of the closure exchanged
MergedKeys_LocalFirst(global_raw, local_raw) ==
    merge_keymap_configs(merge_keymap_configs(KeymapConfig_default, local_raw),
                         global_raw)

\* the arm's accumulator after both calls of the closure
MergedKeys(global_raw, local_raw) ==
    merge_keymap_configs(merge_keymap_configs(KeymapConfig_default, global_raw),
                         local_raw)

\* MergedEditor with unwrap_or_default() in place of map_err(..)?
MergedEditor_DefaultOnError(global_editor, local_editor) ==
    LET tree == IF global_editor = None /\ local_editor = None THEN None
                ELSE IF global_editor = None THEN local_editor
                ELSE IF local_editor = None THEN global_editor
                ELSE Some(merge_toml_values(global_editor[1], local_editor[1], MergeDepth))
    IN  IF tree = None \/ IsErr(try_into(tree[1])) THEN Ok(editor_Config_default)
        ELSE try_into(tree[1])

\* let editor = match (global.editor, local.editor) { .. }, before the `?`
MergedEditor(global_editor, local_editor) ==
    IF global_editor = None /\ local_editor = None THEN Ok(editor_Config_default)
    ELSE IF global_editor = None THEN try_into(local_editor[1])
    ELSE IF local_editor = None THEN try_into(global_editor[1])
    ELSE try_into(merge_toml_values(global_editor[1], local_editor[1], MergeDepth))

\* MergedTheme with the operands of `or` exchanged
MergedTheme_GlobalWins(global_raw, local_raw) ==
    OrOption(global_raw.theme, local_raw.theme)

\* theme: local.theme.or(global.theme)
MergedTheme(global_raw, local_raw) == OrOption(local_raw.theme, global_raw.theme)

\* icons: local.icons.or(global.icons)
MergedIcons(global_raw, local_raw) == OrOption(local_raw.icons, global_raw.icons)

\* the arm (Ok(global), Ok(local))
LoadBoth(global_raw, local_raw) ==
    LET editor == MergedEditor(global_raw.editor, local_raw.editor)
    IN  IF IsErr(editor) THEN Err(BadConfig(editor.err))
        ELSE Ok([ theme |-> MergedTheme(global_raw, local_raw),
                  icons |-> MergedIcons(global_raw, local_raw),
                  keys |-> MergedKeys(global_raw, local_raw),
                  editor |-> editor.ok ])

\* LoadBadConfig with the alternatives of the pattern exchanged
LoadBadConfig_GlobalFirst(global_config, local_config) ==
    IF IsBadConfig(global_config) THEN global_config ELSE local_config

\* the arm (_, Err(BadConfig(err))) | (Err(BadConfig(err)), _)
LoadBadConfig(global_config, local_config) ==
    IF IsBadConfig(local_config) THEN local_config ELSE global_config

\* LoadSingle with `editor: Default::default()`
LoadSingle_DefaultEditor(config) ==
    Ok([ theme |-> config.theme,
         icons |-> config.icons,
         keys |-> merge_keymap_configs(KeymapConfig_default, config),
         editor |-> editor_Config_default ])

\* LoadSingle without the call of merge_keymap_configs
LoadSingle_KeysNotMerged(config) ==
    LET editor == IF config.editor = None THEN Ok(editor_Config_default)
                  ELSE try_into(config.editor[1])
    IN  IF IsErr(editor) THEN Err(BadConfig(editor.err))
        ELSE Ok([ theme |-> config.theme,
                  icons |-> config.icons,
                  keys |-> KeymapConfig_default,
                  editor |-> editor.ok ])

\* the arm (Ok(config), Err(_)) | (Err(_), Ok(config))
LoadSingle(config) ==
    LET editor == IF config.editor = None THEN Ok(editor_Config_default)
                  ELSE try_into(config.editor[1])
    IN  IF IsErr(editor) THEN Err(BadConfig(editor.err))
        ELSE Ok([ theme |-> config.theme,
                  icons |-> config.icons,
                  keys |-> merge_keymap_configs(KeymapConfig_default, config),
                  editor |-> editor.ok ])

\* LoadBothIo returning the other error
LoadBothIo_Local(global_config, local_config) == local_config

\* the arm (Err(err), Err(_))
LoadBothIo(global_config, local_config) == global_config

\* load with the arm (Err(err), Err(_)) moved above the BadConfig arm
load_IoArmFirst(global_source, local_source) ==
    LET global_config == ParseSource(global_source)
        local_config == ParseSource(local_source)
    IN  IF IsOk(global_config) /\ IsOk(local_config)
        THEN LoadBoth(global_config.ok, local_config.ok)
        ELSE IF IsErr(global_config) /\ IsErr(local_config)
        THEN LoadBothIo(global_config, local_config)
        ELSE IF IsBadConfig(local_config) \/ IsBadConfig(global_config)
        THEN LoadBadConfig(global_config, local_config)
        ELSE IF IsOk(global_config) THEN LoadSingle(global_config.ok)
        ELSE LoadSingle(local_config.ok)

\* Config::load(global, local)
load(global_source, local_source) ==
    LET global_config == ParseSource(global_source)
        local_config == ParseSource(local_source)
    IN  IF IsOk(global_config) /\ IsOk(local_config)
        THEN LoadBoth(global_config.ok, local_config.ok)
        ELSE IF IsBadConfig(local_config) \/ IsBadConfig(global_config)
        THEN LoadBadConfig(global_config, local_config)
        ELSE IF IsOk(global_config) THEN LoadSingle(global_config.ok)
        ELSE IF IsOk(local_config) THEN LoadSingle(local_config.ok)
        ELSE LoadBothIo(global_config, local_config)

\* ---------------------------------------------------------------- the state machine

\* Config::load_default has read both files; Config::load has not run yet
Init ==
    /\ global \in Sources(MaxLines)
    /\ local \in Sources(MaxLines - SourceLines(global))
    /\ result = None

\* Config::load(global_config, local_config)
Load ==
    /\ result = None
    /\ result' = Some(load(global, local))
    /\ UNCHANGED <<global, local>>

Next == Load

Spec == Init /\ [][Next]_vars

\* ---------------------------------------------------------------- properties

Called == result # None

Returned == result[1]

\* the two sources after the per-source parse step
global_config == ParseSource(global)

local_config == ParseSource(local)

\* the text is malformed TOML, or sets a top-level key outside the schema
FailsStrictSchema(text) ==
    \/ \E l \in text : l.path = <<>>
    \/ \E l, m \in text : l # m /\ IsPrefix(l.path, m.path)
    \/ \E l \in text : l.path # <<>> /\ l.path[1] \notin ConfigRawFields

ReadButInvalid(source) == IsOk(source) /\ FailsStrictSchema(source.ok)

\* C1: when a source was read but its text fails strict-schema parsing, load
\* returns Err(BadConfig) with the parse error of a source that failed to parse,
\* never Ok and never an I/O failure; global invalid with local valid returns the
\* global source's parse error.
C1_ParseFailureIsFatal ==
    (Called /\ (ReadButInvalid(global) \/ ReadButInvalid(local))) =>
        /\ IsBadConfig(Returned)
        /\ \/ IsBadConfig(global_config) /\ Returned = global_config
           \/ IsBadConfig(local_config) /\ Returned = local_config
        /\ (ReadButInvalid(global) /\ IsOk(local_config)) => Returned = global_config

C1_Witness ==
    /\ Called
    /\ ReadButInvalid(global)
    /\ IsOk(local_config) /\ local_config.ok.theme # None
    /\ IsBadConfig(Returned)
    /\ Returned = global_config

BothFailed == IsErr(global_config) /\ IsErr(local_config)

\* C2 as stated: whenever both sources are failures after the parse step, load
\* returns the global source's failure.
C2_GlobalFailureAlways == (Called /\ BothFailed) => Returned = global_config

\* C2 as amended: whenever both sources are failures after the parse step, load
\* returns the local source's parse error if local is a parse failure, and the
\* global source's failure otherwise.
C2_FailurePrecedence ==
    (Called /\ BothFailed) =>
        Returned = IF IsBadConfig(local_config) THEN local_config ELSE global_config

C2_Witness ==
    /\ Called
    /\ IsBadConfig(global_config) /\ IsBadConfig(local_config)
    /\ global_config # local_config
    /\ Returned = local_config

\* C3: when both sources are I/O failures, load returns exactly the global
\* source's I/O failure and never the local one's.
C3_BothIoReturnsGlobal ==
    (Called /\ IsIoError(global) /\ IsIoError(local)) => Returned = global

C3_Witness ==
    /\ Called
    /\ IsIoError(global) /\ IsIoError(local)
    /\ global # local
    /\ Returned = global

\* the keys a single source resolves to: the built-in defaults, its override on top
SingleKeys(raw) ==
    IF raw.keys = None THEN [supertab |-> None, bindings |-> keymap_default]
    ELSE [ supertab |-> raw.keys[1].supertab,
           bindings |-> merge_keys(keymap_default, raw.keys[1].bindings) ]

SingleEditor(raw) ==
    IF raw.editor = None THEN Ok(editor_Config_default) ELSE try_into(raw.editor[1])

SingleExpected(raw) ==
    /\ IsOk(Returned) <=> IsOk(SingleEditor(raw))
    /\ IsOk(Returned) =>
        /\ Returned.ok.theme = raw.theme
        /\ Returned.ok.icons = raw.icons
        /\ Returned.ok.keys = SingleKeys(raw)
        /\ Returned.ok.editor = SingleEditor(raw).ok

\* C4: with exactly one source parsed and the other an I/O failure, the result
\* is computed from the parsed source alone, the same whether it is the global
\* or the local one: its theme and icons, the built-in keymap with its keys
\* override merged on top, its editor tree deserialized or the settings default.
C4_SingleSource ==
    /\ (Called /\ IsOk(global_config) /\ IsIoError(local_config)) =>
            /\ SingleExpected(global_config.ok)
            /\ Returned = load(local, global)
    /\ (Called /\ IsIoError(global_config) /\ IsOk(local_config)) =>
            /\ SingleExpected(local_config.ok)
            /\ Returned = load(local, global)

C4_Witness ==
    /\ Called
    /\ IsIoError(global)
    /\ local = Ok({ Line(<<"keys", "insert", "y">>, String("move_line_down")),
                    Line(<<"editor", "mouse">>, Boolean(FALSE)),
                    Line(<<"theme">>, String("a")) })
    /\ IsOk(Returned)
    /\ Returned.ok.theme = Some("a")
    /\ Returned.ok.keys.bindings["insert"] =
            Node([ esc |-> Leaf("normal_mode"), y |-> Leaf("move_line_down") ])
    /\ Returned.ok.keys.bindings["normal"] = keymap_default["normal"]
    /\ Returned.ok.editor.Table["mouse"] = Boolean(FALSE)
    /\ Returned.ok.editor.Table["scrolloff"] = Integer(5)

BothParsed == IsOk(global_config) /\ IsOk(local_config)

\* C5: with both sources parsed and load returning Ok, the theme is local's if
\* local set one, else global's, else absent; icons likewise and independently.
C5_LocalWins ==
    (Called /\ BothParsed /\ IsOk(Returned)) =>
        LET g == global_config.ok
            l == local_config.ok
        IN  /\ Returned.ok.theme =
                    IF l.theme # None THEN l.theme
                    ELSE IF g.theme # None THEN g.theme ELSE None
            /\ Returned.ok.icons =
                    IF l.icons # None THEN l.icons
                    ELSE IF g.icons # None THEN g.icons ELSE None

C5_Witness ==
    /\ Called /\ BothParsed /\ IsOk(Returned)
    /\ global_config.ok.theme = Some("a") /\ local_config.ok.theme = Some("b")
    /\ global_config.ok.icons = Some("x") /\ local_config.ok.icons = None
    /\ Returned.ok.theme = Some("b")
    /\ Returned.ok.icons = Some("x")

\* one override laid on the accumulated keymap
Layered(acc, keys) ==
    IF keys = None THEN acc
    ELSE [ supertab |-> IF keys[1].supertab = None THEN acc.supertab
                        ELSE keys[1].supertab,
           bindings |-> merge_keys(acc.bindings, keys[1].bindings) ]

BindingsOf(raw) == IF raw.keys = None THEN <<>> ELSE raw.keys[1].bindings

\* the key chords an override binds at the root of a mode's trie
RootKeys(bindings, mode) ==
    IF mode \in DOMAIN bindings /\ IsNode(bindings[mode])
    THEN DOMAIN bindings[mode].Node ELSE {}

\* C6: with both sources parsed, the keys are the built-in defaults, then the
\* global override, then the local override merged on top of that; so a key only
\* global binds keeps global's command, a key local binds has local's command,
\* and a built-in binding neither source overrides is kept.
C6_KeymapLayering ==
    (Called /\ BothParsed /\ IsOk(Returned)) =>
        LET g == global_config.ok
            l == local_config.ok
            keys == Returned.ok.keys
            gb == BindingsOf(g)
            lb == BindingsOf(l)
        IN  /\ keys = Layered(Layered([supertab |-> None, bindings |-> keymap_default],
                                      g.keys), l.keys)
            /\ \A mode \in DOMAIN keymap_default :
                /\ \A k \in RootKeys(gb, mode) \ RootKeys(lb, mode) :
                        ~IsNode(gb[mode].Node[k])
                            => keys.bindings[mode].Node[k] = gb[mode].Node[k]
                /\ \A k \in RootKeys(lb, mode) :
                        ~IsNode(lb[mode].Node[k])
                            => keys.bindings[mode].Node[k] = lb[mode].Node[k]
                /\ \A k \in DOMAIN keymap_default[mode].Node
                                \ (RootKeys(gb, mode) \cup RootKeys(lb, mode)) :
                        keys.bindings[mode].Node[k] = keymap_default[mode].Node[k]

C6_Witness ==
    /\ Called /\ IsOk(Returned)
    /\ global = Ok({ Line(<<"keys", "normal", "a">>, String("cmd1")),
                     Line(<<"keys", "supertab">>, String("move_line_down")) })
    /\ local = Ok({ Line(<<"keys", "normal", "b">>, String("cmd2")) })
    /\ Returned.ok.keys.supertab = Some("move_line_down")
    /\ Returned.ok.keys.bindings["normal"] =
            Node([ a |-> Leaf("cmd1"), b |-> Leaf("cmd2"),
                   h |-> Leaf("move_char_left"),
                   g |-> Node([ g |-> Leaf("goto_file_start"),
                                e |-> Leaf("goto_last_line") ]) ])

\* C7: whenever load returns Ok, keys.bindings has an entry for every mode the
\* built-in default keymap has one for.
C7_DefaultModesKept ==
    (Called /\ IsOk(Returned)) =>
        DOMAIN keymap_default \subseteq DOMAIN Returned.ok.keys.bindings

C7_Witness ==
    /\ Called /\ IsOk(Returned) /\ BothParsed
    /\ DOMAIN BindingsOf(global_config.ok) = {"insert"}
    /\ DOMAIN BindingsOf(local_config.ok) = {"normal"}
    /\ DOMAIN Returned.ok.keys.bindings = {"normal", "select", "insert"}

\* merging a settings tree, or a keys override, with itself changes nothing
SelfMergeIdempotent(raw) ==
    /\ raw.editor # None =>
            merge_toml_values(raw.editor[1], raw.editor[1], MergeDepth) = raw.editor[1]
    /\ raw.keys # None =>
            merge_keys(merge_keys(keymap_default, raw.keys[1].bindings),
                       raw.keys[1].bindings)
                = merge_keys(keymap_default, raw.keys[1].bindings)

\* C8: for a valid text s, load(Ok(s), I/O failure) and load(Ok(s), Ok(s)) give
\* equal outcomes, provided the two merges are idempotent on identical inputs.
C8_SelfMerge ==
    (Called /\ IsOk(global_config) /\ IsIoError(local)
            /\ SelfMergeIdempotent(global_config.ok))
        => Returned = load(global, global)

C8_Witness ==
    /\ Called /\ IsIoError(local) /\ IsOk(global_config)
    /\ global_config.ok.keys # None /\ global_config.ok.keys[1].supertab # None
    /\ global_config.ok.keys[1].bindings # <<>>
    /\ global_config.ok.editor # None
    /\ IsOk(Returned)
    /\ Returned = load(global, global)

\* the tree the editor settings are deserialized from, None for the default
SelectedTree(global_editor, local_editor) ==
    IF global_editor = None THEN local_editor
    ELSE IF local_editor = None THEN global_editor
    ELSE Some(merge_toml_values(global_editor[1], local_editor[1], MergeDepth))

EditorFrom(tree) ==
    /\ tree = None => IsOk(Returned) /\ Returned.ok.editor = editor_Config_default
    /\ tree # None =>
            IF IsErr(try_into(tree[1]))
            THEN Returned = Err(BadConfig(try_into(tree[1]).err))
            ELSE IsOk(Returned) /\ Returned.ok.editor = try_into(tree[1]).ok

\* C9: the editor settings are one selected tree deserialized: the default if
\* no parsed source set editor, the only tree if one did, the global tree merged
\* with the local one (depth 3) if both did; if deserializing it fails load
\* returns Err(BadConfig) and no Config, although both raw parses succeeded.
C9_EditorSelection ==
    /\ (Called /\ BothParsed)
            => EditorFrom(SelectedTree(global_config.ok.editor, local_config.ok.editor))
    /\ (Called /\ IsOk(global_config) /\ IsIoError(local_config))
            => EditorFrom(global_config.ok.editor)
    /\ (Called /\ IsIoError(global_config) /\ IsOk(local_config))
            => EditorFrom(local_config.ok.editor)
    /\ Called => (IsOk(Returned) /\ ~IsErr(Returned)) \/ (IsErr(Returned) /\ ~IsOk(Returned))

C9_Witness ==
    /\ Called /\ BothParsed
    /\ global_config.ok.editor # None /\ local_config.ok.editor # None
    /\ global_config.ok.editor # local_config.ok.editor
    /\ IsOk(try_into(local_config.ok.editor[1]))
    /\ IsBadConfig(Returned)

\* C10: when the local source is a parse failure the returned error is the
\* local parse error, whatever the global source is; the global parse error is
\* returned only when global is a parse failure and local is not.
C10_LocalParseErrorFirst ==
    Called =>
        /\ IsBadConfig(local_config) => Returned = local_config
        /\ (IsBadConfig(global_config) /\ ~IsBadConfig(local_config))
                => Returned = global_config
        /\ (IsBadConfig(global_config) /\ Returned = global_config)
                => (~IsBadConfig(local_config) \/ local_config = global_config)

C10_Witness ==
    /\ Called
    /\ IsOk(global_config) /\ global_config.ok.theme # None
    /\ IsBadConfig(local_config)
    /\ Returned = local_config

====
